---- MODULE Spec2Model ----
(***************************************************************************)
(* go-watch: a file watcher that runs shell commands when files change.    *)
(*                                                                         *)
(* The repository holds three variants of the program.  This module models *)
(*   - the rule-based pipeline of src/main.go (event loop, debounce gate,  *)
(*     unbuffered eventQueue, dispatcher goroutine, serial and parallel    *)
(*     commands): Spec, SpecFair with a scheduled dispatcher, and SpecAdd  *)
(*     from the start of main (loadConfig, addPatternsToWatcher);          *)
(*   - the restart-on-change variant of src/unnamed/part_000 (event loop   *)
(*     that kills the previous command and starts a replacement in a       *)
(*     goroutine): SpecRestart, SpecWalk for the walk that registers the   *)
(*     directories, and SpecBoot from the start of main;                   *)
(*   - the extension-rule variant of src/unnamed/part_001 with the         *)
(*     live-reload hub: SpecReload, and SpecReloadFair with scheduled      *)
(*     handlers;                                                           *)
(*   - the matching functions on their own: SpecMatch.                     *)
(*                                                                         *)
(* Strings the code inspects (paths, glob patterns) are sequences of       *)
(* one-character strings.  Time is a discrete clock.                       *)
(***************************************************************************)
EXTENDS Integers, Sequences, FiniteSets, TLC

\* ------------------------------------------------------------------ bounds
\* Watch events the watch source delivers in one behaviour.
MaxEvents == 2
\* Clock ticks in one behaviour.
MaxTime == 2
\* Largest debounce duration (in ticks) a configuration is drawn with.
MaxDebounce == 1
\* Live-reload connections accepted in one behaviour.
MaxConns == 2

\* ----------------------------------------------------------------- strings
S_main_go    == <<"m", "a", "i", "n", ".", "g", "o">>
S_pkg_foo_go == <<"p", "k", "g", "/", "f", "o", "o", ".", "g", "o">>
S_README_md  == <<"R", "E", "A", "D", "M", "E", ".", "m", "d">>
S_index_html == <<"i", "n", "d", "e", "x", ".", "h", "t", "m", "l">>

G_rec_go  == <<"*", "*", "/", "*", ".", "g", "o">>
G_rec_mod == <<"*", "*", "/", "*", ".", "m", "o", "d">>
G_pkg_any == <<"p", "k", "g", "/", "*">>
G_any     == <<"*">>

\* The paths the watch source reports in this model.
Paths == {S_main_go, S_pkg_foo_go}

\* ----------------------------------------------------- configuration (main.go)
Command(text, parallel) == [Cmd |-> text, Parallel |-> parallel]

Rule(patterns, commands) == [Patterns |-> patterns, Commands |-> commands]

\* The repository's example configuration: one rule, two serial commands.
ExampleRules ==
    << Rule(<<G_rec_go, G_rec_mod>>,
            <<Command("go build ./...", FALSE), Command("go test ./...", FALSE)>>) >>

\* A rule two of whose patterns match pkg/foo.go, with a parallel command
\* between two serial ones, followed by a rule that matches every path.
OverlapRules ==
    << Rule(<<G_rec_go, G_pkg_any>>,
            <<Command("build", FALSE), Command("lint", TRUE), Command("test", FALSE)>>),
       Rule(<<G_any>>,
            <<Command("sync", FALSE)>>) >>

RuleSets == {ExampleRules, OverlapRules}

\* ------------------------------------------------------------------- state
VARIABLES
    \* main.go
    config,            \* Config.Rules, immutable after startup
    debounceDuration,  \* time.ParseDuration(config.DebounceTime)
    now,               \* the wall clock
    lastChange,        \* main's lastChange
    loopPc,            \* the event loop: "select", "send" or "exited"
    sending,           \* the path the loop is blocked sending on eventQueue
    nEvents,           \* events received from watcher.Events so far
    lastEvent,         \* history: the event received last, and the one before it
    signal,            \* history: what the watch source reported last besides
                       \* events: "none", "error" (a value on Errors) or "closed"
    dpc,               \* the dispatcher goroutine: "recv", "pattern", "command", "wait"
    dpath,             \* executeRules' filePath
    ri, pi, ci,        \* executeRules' position: rule, pattern, command
    procs,             \* parallel commands that are running
    nDispatch,         \* history: calls of executeRules so far
    dEvent,            \* history: which event, in delivery order, is dispatched
    failedEarlier,     \* history: a serial command failed in an earlier dispatch
    dlog,              \* history: command starts and serial exits of this dispatch
    \* part_000 (restart on change) and part_001 (extension rules, live reload)
    liveReload,        \* config.LiveReload
    rpc,               \* the event loop: "startup", "select", "run", "notify_lock",
                       \* "notify_iter" or "exited"
    lastRestart,       \* main's lastRestart
    rEvents,           \* events received from watcher.Events so far
    rpath,             \* part_001: event.Name of the event being handled
    rri,               \* part_001: the rule whose command runs
    cmd,               \* main's cmd: 0 for nil, or an exec.Cmd object
    cmds,              \* the exec.Cmd objects created: their Process field (0 for nil)
    gor,               \* the goroutines of line 188: where each is, the object it runs
    rprocs,            \* the operating-system processes spawned
    cmdUsers,          \* history: the tasks that read or wrote main's cmd or the
                       \* Process field of the object it names
    killErr,           \* history: what cmd.Process.Kill() returned for the event
                       \* admitted last: "nil", "error", or "none" when not called
    clients,           \* the clients map
    mutex,             \* the tasks holding clientsMutex
    hpc,               \* each connection's handler
    alive,             \* whether each connection still carries traffic
    todo,              \* notifyLiveReload's range: the clients still to visit
    snapshot,          \* history: clients when the broadcast under way took the lock
    attempted,         \* history: the clients the broadcast under way has written to
    writes,            \* history: the WriteMessage calls of the broadcast under way
    dropped,           \* history: the clients removed after a failed write
    \* startup: the configuration file and the registration with the watch source
    cfgFile,           \* the file the flag "config" names, NoFile when it is not given
    cfgErr,            \* history: the error loadConfig returned: "none" before the
                       \* call, "nil", "read", "format" or "parse"
    regErr,            \* history: watcher.Add or the walk returned an error
    ignoreDirs,        \* config.IgnoreDirs
    watchDirs,         \* config.WatchDirs
    wpc,               \* startup: "config", then "walk" (part_000) or "add" (main.go),
                       \* then "watching", or "fatal" after Fatalf
    wroot,             \* the index in watchDirs of the root filepath.Walk is on
    wpos,              \* the index of the entry the walk visits next
    registered,        \* the paths given to watcher.Add with success
    \* the matching functions, evaluated on their own
    mpc,               \* "call" before the evaluation, "done" after it
    mPath,             \* the path argument
    mGlob,             \* the pattern argument of g.Match
    mExts,             \* the extension list argument of isWatchedFile
    mOut               \* what the functions returned

loopVars == <<now, lastChange, loopPc, sending, nEvents, lastEvent, signal>>
dispVars == <<dpc, dpath, ri, pi, ci, nDispatch, dEvent, failedEarlier, dlog>>
rulesVars == <<config, lastChange, loopPc, sending, nEvents, lastEvent, signal, dispVars, procs>>
cmdVars == <<cmd, cmds, gor, rprocs, cmdUsers, killErr>>
hubVars == <<clients, mutex, hpc, alive, todo, snapshot, attempted, writes, dropped>>
walkVars == <<cfgFile, cfgErr, regErr, ignoreDirs, watchDirs, wpc, wroot, wpos, registered>>
matchVars == <<mpc, mPath, mGlob, mExts, mOut>>
restartVars == <<liveReload, rpc, lastRestart, rEvents, rpath, rri, cmdVars, hubVars, walkVars,
                 matchVars>>
vars == <<config, debounceDuration, loopVars, dispVars, procs, restartVars>>

NoPath == <<>>

\* No configuration file: the flag "config" is empty.
NoFile ==
    [given |-> FALSE, path |-> <<>>, readable |-> FALSE, syntax |-> "malformed",
     keys |-> {}, value |-> <<>>]

NoEvent == [seen |-> FALSE, t |-> 0, path |-> NoPath, admitted |-> FALSE,
            prevSeen |-> FALSE, prevT |-> 0, prevAdmitted |-> FALSE, prevLast |-> 0]

\* ------------------------------------------------------------ pure functions
\* g := glob.MustCompile(pattern); g.Match(s), compiled without separators:
\* "*" (and so "**") matches any sequence of characters, "?" any one character.
RECURSIVE Match(_, _)
Match(pattern, s) ==
    IF pattern = <<>> THEN s = <<>>
    ELSE IF Head(pattern) = "*"
         THEN Match(Tail(pattern), s) \/ (s # <<>> /\ Match(pattern, Tail(s)))
         ELSE /\ s # <<>>
              /\ (Head(pattern) = "?" \/ Head(pattern) = Head(s))
              /\ Match(Tail(pattern), Tail(s))

\* Mutant of Admits: the gate opens at the boundary (>= for >).
AdmitsAtBoundary == now - lastChange >= debounceDuration

\* time.Since(lastChange) > debounceDuration
Admits == now - lastChange > debounceDuration

\* Mutant of LastChangeAfter: the timestamp is taken outside the if.
LastChangeAlways(admitted) == now

\* lastChange after an event: assigned time.Now() inside the if only.
LastChangeAfter(admitted) == IF admitted THEN now ELSE lastChange

\* A position of executeRules' loops; Done when the rule loop has ended.
Done == [r |-> 0, p |-> 0]

\* The first pattern at or after pattern p of rule r, in loop order.
RECURSIVE PatternFrom(_, _, _)
PatternFrom(rules, r, p) ==
    IF r > Len(rules) THEN Done
    ELSE IF p > Len(rules[r].Patterns) THEN PatternFrom(rules, r + 1, 1)
    ELSE [r |-> r, p |-> p]

\* Where the pattern loop goes on after pattern p of rule r.
NextPattern(rules, r, p) == PatternFrom(rules, r, p + 1)

\* Mutant of AfterBreak: a return in place of the break.
AfterBreakReturns(rules, r, p) == Done

\* Where executeRules goes on after `break` leaves the command loop: the
\* break leaves the innermost loop only, so the pattern loop continues.
AfterBreak(rules, r, p) == NextPattern(rules, r, p)

\* Mutant of Blocks: executeCommand waits for parallel commands too.
BlocksAlways(command) == TRUE

\* Mutant of Blocks: executeCommand returns at once for serial commands too.
BlocksNever(command) == FALSE

\* Whether executeCommand returns only after the command has exited.
Blocks(command) == ~command.Parallel

\* Mutant of Breaks: the failure of a serial command is ignored.
BreaksNever(ok, command) == FALSE

\* Whether the command loop breaks: executeCommand returned false for a
\* command that is not parallel.
Breaks(ok, command) == ~ok /\ ~command.Parallel

\* ------------------------------------------------------------------- Init
\* The clock when the program starts: the zero time.Time (0) lies further in
\* the past than any debounce duration.
StartTime == MaxDebounce + 2

Conns == 1..MaxConns

\* The restart-on-change variant before it runs.
\* The registration variables once startup is over, in the specifications
\* that take the delivered events as given.
WalkIdle ==
    /\ cfgFile = NoFile
    /\ cfgErr = "none"
    /\ regErr = FALSE
    /\ ignoreDirs = <<>>
    /\ watchDirs = <<>>
    /\ wpc = "watching"
    /\ wroot = 0
    /\ wpos = 0
    /\ registered = {}

NoOut == [glob |-> FALSE, watched |-> FALSE, byRules |-> FALSE, frontend |-> FALSE]

\* The evaluation variables in the specifications of the running program.
MatchIdle ==
    /\ mpc = "done"
    /\ mPath = NoPath
    /\ mGlob = <<>>
    /\ mExts = <<>>
    /\ mOut = NoOut

RestartIdle ==
    /\ rpc = "select"
    /\ lastRestart = 0
    /\ rEvents = 0
    /\ rpath = NoPath
    /\ rri = 0
    /\ cmd = 0
    /\ cmds = <<>>
    /\ gor = <<>>
    /\ rprocs = <<>>
    /\ cmdUsers = {}
    /\ killErr = "none"
    /\ clients = {}
    /\ mutex = {}
    /\ hpc = [c \in Conns |-> "idle"]
    /\ alive = [c \in Conns |-> FALSE]
    /\ todo = {}
    /\ snapshot = {}
    /\ attempted = {}
    /\ writes = 0
    /\ dropped = {}

Init ==
    /\ config \in {[Rules |-> rs] : rs \in RuleSets}
    /\ debounceDuration \in 0..MaxDebounce
    /\ liveReload = FALSE
    /\ RestartIdle
    /\ WalkIdle
    /\ MatchIdle
    \* lastChange is the zero time.Time
    /\ lastChange = 0
    /\ now = StartTime
    /\ loopPc = "select"
    /\ sending = NoPath
    /\ nEvents = 0
    /\ lastEvent = NoEvent
    /\ signal = "none"
    /\ dpc = "recv"
    /\ dpath = NoPath
    /\ ri = 0 /\ pi = 0 /\ ci = 0
    /\ procs = {}
    /\ nDispatch = 0
    /\ dEvent = 0
    /\ failedEarlier = FALSE
    /\ dlog = <<>>

\* ------------------------------------------------------------ the event loop
Running == loopPc # "exited"

\* Mutant of Watching: the loop runs while startup still registers paths.
WatchingAlways == TRUE

\* Startup is over: the for loop of main has been entered.
Watching == wpc = "watching"

Tick ==
    /\ Watching
    /\ Running
    /\ now < StartTime + MaxTime
    /\ now' = now + 1
    /\ UNCHANGED <<config, debounceDuration, lastChange, loopPc, sending, nEvents,
                   lastEvent, signal, dispVars, procs, restartVars>>

\* Mutant of Gate: an event whose path matches no pattern is not admitted.
GateForMatching(path) ==
    /\ Admits
    /\ \E r \in DOMAIN config.Rules : \E p \in DOMAIN config.Rules[r].Patterns :
          Match(config.Rules[r].Patterns[p], path)

\* The condition of the if at line 100 for an event with this path: the time
\* since lastChange alone.
Gate(path) == Admits

\* Mutant of AfterAdmit: the loop selects again without sending the path.
AfterAdmitSelects == "select"

\* Where the loop is after it has admitted an event: at eventQueue <- event.Name,
\* a send on an unbuffered channel.
AfterAdmit == "send"

\* case event, ok := <-watcher.Events with ok: the debounce gate.
WatchEvent(path) ==
    /\ Watching
    /\ loopPc = "select"
    /\ nEvents < MaxEvents
    /\ nEvents' = nEvents + 1
    /\ lastEvent' = [seen |-> TRUE, t |-> now, path |-> path, admitted |-> Gate(path),
                     prevSeen |-> lastEvent.seen, prevT |-> lastEvent.t,
                     prevAdmitted |-> lastEvent.admitted, prevLast |-> lastChange]
    /\ lastChange' = LastChangeAfter(Gate(path))
    /\ IF Gate(path)
       THEN /\ loopPc' = AfterAdmit
            /\ sending' = path
       ELSE UNCHANGED <<loopPc, sending>>
    /\ UNCHANGED <<config, debounceDuration, now, signal, dispVars, procs, restartVars>>

\* Where the loop is after `case err, ok := <-watcher.Errors` with ok: the
\* error is logged and the for loop selects again.
AfterError == "select"

\* Mutant of AfterClosed: the loop selects again on a closed channel.
AfterClosedSelects == "select"

\* Where the loop is after either case with !ok: return.
AfterClosed == "exited"

\* case err, ok := <-watcher.Errors with ok: logged, the loop goes on.
WatchError ==
    /\ Watching
    /\ loopPc = "select"
    /\ signal' = "error"
    /\ loopPc' = AfterError
    /\ UNCHANGED <<config, debounceDuration, now, lastChange, sending, nEvents,
                   lastEvent, dispVars, procs, restartVars>>

\* Either channel closed: main returns and the process exits.
WatchClosed ==
    /\ Watching
    /\ loopPc = "select"
    /\ signal' = "closed"
    /\ loopPc' = AfterClosed
    /\ UNCHANGED <<config, debounceDuration, now, lastChange, sending, nEvents,
                   lastEvent, dispVars, procs, restartVars>>

\* ------------------------------------------------------------ the dispatcher
GoTo(pos) ==
    IF pos = Done
    THEN dpc' = "recv" /\ ri' = 0 /\ pi' = 0 /\ ci' = 0
    ELSE dpc' = "pattern" /\ ri' = pos.r /\ pi' = pos.p /\ ci' = 0

\* Mutant of DispatcherReady: a path is taken while executeRules still runs.
DispatcherAlwaysReady == TRUE

\* Mutant of DispatcherReady: a path is taken only once the parallel commands
\* of earlier dispatches have exited.
DispatcherReadyWhenQuiet == dpc = "recv" /\ procs = {}

\* Mutant of DispatcherReady: a path is taken while a serial command runs.
DispatcherReadyInWait == dpc \in {"recv", "wait"}

\* The dispatcher goroutine is at `range eventQueue`: executeRules returned.
DispatcherReady == dpc = "recv"

\* eventQueue <- event.Name meets `for path := range eventQueue`.
Handoff ==
    /\ Running
    /\ loopPc = "send"
    /\ DispatcherReady
    /\ dEvent' = nEvents
    /\ loopPc' = "select"
    /\ sending' = NoPath
    /\ dpath' = sending
    /\ nDispatch' = nDispatch + 1
    /\ failedEarlier' = (failedEarlier \/ \E i \in DOMAIN dlog : dlog[i].kind = "fail")
    /\ dlog' = <<>>
    /\ GoTo(PatternFrom(config.Rules, 1, 1))
    /\ UNCHANGED <<config, debounceDuration, now, lastChange, nEvents, lastEvent,
                   signal, procs, restartVars>>

\* g.Match(filePath) for the current pattern.
MatchPattern ==
    /\ Running
    /\ dpc = "pattern"
    /\ IF /\ Match(config.Rules[ri].Patterns[pi], dpath)
          /\ Len(config.Rules[ri].Commands) > 0
       THEN dpc' = "command" /\ ci' = 1 /\ UNCHANGED <<ri, pi>>
       ELSE GoTo(NextPattern(config.Rules, ri, pi))
    /\ UNCHANGED <<config, debounceDuration, loopVars, dpath, nDispatch, dEvent,
                   failedEarlier, dlog, procs, restartVars>>

\* The command loop goes on after command ci.
NextCommand ==
    IF ci < Len(config.Rules[ri].Commands)
    THEN dpc' = "command" /\ ci' = ci + 1 /\ UNCHANGED <<ri, pi>>
    ELSE GoTo(NextPattern(config.Rules, ri, pi))

Entry(kind) == [kind |-> kind, rule |-> ri, pat |-> pi, idx |-> ci]

\* executeCommand(cmd) up to command.Run() being called.
StartCommand ==
    /\ Running
    /\ dpc = "command"
    /\ dlog' = Append(dlog, Entry("start"))
    /\ IF Blocks(config.Rules[ri].Commands[ci])
       THEN dpc' = "wait" /\ UNCHANGED <<ri, pi, ci, procs>>
       ELSE /\ procs' = procs \cup {[ev |-> nDispatch, rule |-> ri, pat |-> pi, idx |-> ci]}
            /\ NextCommand
    /\ UNCHANGED <<config, debounceDuration, loopVars, dpath, nDispatch, dEvent,
                   failedEarlier, restartVars>>

\* command.Run() of a serial command returns; ok is false for a non-zero
\* exit and for a spawn failure.
SerialExit(ok) ==
    /\ Running
    /\ dpc = "wait"
    /\ dlog' = Append(dlog, Entry(IF ok THEN "ok" ELSE "fail"))
    /\ IF Breaks(ok, config.Rules[ri].Commands[ci])
       THEN GoTo(AfterBreak(config.Rules, ri, pi))
       ELSE NextCommand
    /\ UNCHANGED <<config, debounceDuration, loopVars, dpath, procs, nDispatch, dEvent,
                   failedEarlier, restartVars>>

\* command.Run() of a parallel command returns in its goroutine.
ParallelExit(p, ok) ==
    /\ Running
    /\ p \in procs
    /\ procs' = procs \ {p}
    /\ UNCHANGED <<config, debounceDuration, loopVars, dispVars, restartVars>>

Next ==
    \/ Tick
    \/ \E path \in Paths : WatchEvent(path)
    \/ WatchError
    \/ WatchClosed
    \/ Handoff
    \/ MatchPattern
    \/ StartCommand
    \/ \E ok \in BOOLEAN : SerialExit(ok)
    \/ \E p \in procs, ok \in BOOLEAN : ParallelExit(p, ok)

Spec == Init /\ [][Next]_vars

\* A step of the dispatcher goroutine: the receive from eventQueue when the
\* loop is sending, a pattern match, a command start, and the return of a
\* serial command's Run.
DispatcherStep ==
    \/ Handoff
    \/ MatchPattern
    \/ StartCommand
    \/ \E ok \in BOOLEAN : SerialExit(ok)

\* The Go scheduler runs the dispatcher goroutine when it can run, and every
\* serial command exits.
FairDispatch == WF_vars(DispatcherStep)

\* The configurations with debounce_time "0s".
InitFair == Init /\ debounceDuration = 0

SpecFair == InitFair /\ [][Next]_vars /\ FairDispatch

\* ========================================== part_000: restart on change
\* The main.go variables before it runs, left alone by the restart variant.
RulesIdle ==
    /\ config = [Rules |-> <<>>]
    /\ lastChange = 0
    /\ loopPc = "select"
    /\ sending = NoPath
    /\ nEvents = 0
    /\ lastEvent = NoEvent
    /\ signal = "none"
    /\ dpc = "recv"
    /\ dpath = NoPath
    /\ ri = 0 /\ pi = 0 /\ ci = 0
    /\ procs = {}
    /\ nDispatch = 0
    /\ dEvent = 0
    /\ failedEarlier = FALSE
    /\ dlog = <<>>

\* The paths the watch source reports to the restart variant.
RestartPaths == {S_main_go, S_index_html, S_README_md}

\* flag "ext", default "go,js,css,html"
Extensions == << <<"g", "o">>, <<"j", "s">>, <<"c", "s", "s">>, <<"h", "t", "m", "l">> >>

\* filepath.Ext: the suffix from the last dot of the last path element.
RECURSIVE ExtFrom(_, _)
ExtFrom(path, i) ==
    IF i = 0 THEN <<>>
    ELSE IF path[i] = "/" THEN <<>>
    ELSE IF path[i] = "." THEN SubSeq(path, i, Len(path))
    ELSE ExtFrom(path, i - 1)

Ext(path) == ExtFrom(path, Len(path))

\* Mutant of isWatchedFile: the path's ending is compared, not its extension.
isWatchedBySuffix(path, extensions) ==
    \E i \in DOMAIN extensions :
        /\ Len(extensions[i]) <= Len(path)
        /\ SubSeq(path, Len(path) - Len(extensions[i]) + 1, Len(path)) = extensions[i]

\* isWatchedFile of part_000: "."+e == filepath.Ext(path) for some e.
isWatchedFile(path, extensions) ==
    \E i \in DOMAIN extensions : <<".">> \o extensions[i] = Ext(path)

\* Mutant of isFrontendFile: every path counts as a front-end file.
isFrontendAlways(path) == TRUE

isFrontendFile(path) ==
    \/ Ext(path) = <<".", "h", "t", "m", "l">>
    \/ Ext(path) = <<".", "c", "s", "s">>
    \/ Ext(path) = <<".", "j", "s">>

\* isWatchedFile(event.Name, config.Extensions) && time.Since(lastRestart) > debounceDuration
RestartAdmits(path) ==
    isWatchedFile(path, Extensions) /\ now - lastRestart > debounceDuration

\* The event loop's task on clientsMutex; connection handlers are 1..MaxConns.
Loop == 0

InitRestart ==
    /\ RulesIdle
    /\ debounceDuration \in 0..MaxDebounce
    \* flag "live-reload", default false: no server, no broadcast
    /\ liveReload = FALSE
    /\ now = StartTime
    /\ RestartIdle
    /\ WalkIdle
    /\ MatchIdle

RestartRunning == rpc # "exited"

RTick ==
    /\ Watching
    /\ RestartRunning
    /\ now < StartTime + MaxTime
    /\ now' = now + 1
    /\ UNCHANGED <<debounceDuration, rulesVars, restartVars>>

\* cmd.Process.Kill(): SIGKILL to a process that runs; an error, logged, for
\* one that has exited.
Killed(pid) ==
    IF rprocs[pid].state = "running"
    THEN [rprocs EXCEPT ![pid].signalled = TRUE]
    ELSE rprocs

\* What cmd.Process.Kill() returns: an error ("os: process already finished")
\* once Wait has returned for the process, nil otherwise; "none" stands for
\* the call skipped because cmd or cmd.Process was nil.
KillResult(pid) ==
    IF pid = 0 THEN "none"
    ELSE IF \E g \in DOMAIN gor : gor[g].pid = pid /\ gor[g].pc = "done" THEN "error"
    ELSE "nil"

\* Mutant of AfterKill: a Kill that fails ends the program.
AfterKillFatal(result) == IF result = "error" THEN "exited" ELSE "start"

\* Where the loop goes after lines 178-182: the error of Kill is logged and
\* the command is created and started whatever Kill returned.
AfterKill(result) == "start"

\* What the unsynchronised read of cmd.Process can return: the goroutine's
\* write to it is ordered with the read by nothing, so nil is possible too.
ProcessSeen == IF cmd = 0 THEN {0} ELSE {0, cmds[cmd].Process}

\* case event, ok := <-watcher.Events with ok (lines 169-199, up to the call
\* of notifyLiveReload).
RestartEvent(path) ==
    /\ Watching
    /\ rpc = "select"
    /\ rEvents < MaxEvents
    /\ rEvents' = rEvents + 1
    /\ IF RestartAdmits(path)
       THEN /\ lastRestart' = now
            /\ cmdUsers' = cmdUsers \cup {"loop"}
            /\ \E pid \in ProcessSeen :
                   /\ rprocs' = IF pid # 0 THEN Killed(pid) ELSE rprocs
                   /\ killErr' = KillResult(pid)
                   /\ IF AfterKill(KillResult(pid)) = "start"
                      THEN /\ cmds' = Append(cmds, [Process |-> 0])
                           /\ cmd' = Len(cmds) + 1
                           /\ gor' = Append(gor, [pc |-> "load", obj |-> 0, pid |-> 0])
                           /\ rpc' = IF liveReload /\ isFrontendFile(path)
                                     THEN "notify_lock" ELSE "select"
                      ELSE /\ rpc' = "exited"
                           /\ UNCHANGED <<cmd, cmds, gor>>
       ELSE UNCHANGED <<lastRestart, cmdVars, rpc>>
    /\ UNCHANGED <<now, debounceDuration, rulesVars, walkVars, matchVars, liveReload, rpath, rri, hubVars>>

RestartError ==
    /\ Watching
    /\ rpc = "select"
    /\ UNCHANGED vars

\* Either channel closed: main returns and the process exits, and with it
\* its goroutines, its connections and its memory; the processes it spawned
\* run on.
RestartClosed ==
    /\ Watching
    /\ rpc = "select"
    /\ rpc' = "exited"
    /\ lastRestart' = 0 /\ rEvents' = 0
    /\ cmd' = 0 /\ cmds' = <<>> /\ gor' = <<>> /\ cmdUsers' = {} /\ killErr' = "none"
    /\ UNCHANGED <<now, debounceDuration, rulesVars, walkVars, matchVars, liveReload, rpath, rri, rprocs, hubVars>>

\* The goroutine of line 188 evaluates cmd.Run(): it reads the variable cmd
\* as it is now, and Start refuses an object whose Process is set.
GoRun(g) ==
    /\ RestartRunning
    /\ gor[g].pc = "load"
    /\ gor' = [gor EXCEPT ![g] = [pc |-> IF cmds[cmd].Process # 0 THEN "done" ELSE "spawn",
                                  obj |-> cmd, pid |-> 0]]
    /\ cmdUsers' = cmdUsers \cup {"goroutine"}
    /\ UNCHANGED <<now, debounceDuration, rulesVars, walkVars, matchVars, liveReload, rpc, lastRestart, rEvents,
                   rpath, rri, cmd, cmds, rprocs, killErr, hubVars>>

\* Start spawns the process and sets Process.
GoSpawn(g) ==
    /\ RestartRunning
    /\ gor[g].pc = "spawn"
    /\ rprocs' = Append(rprocs, [obj |-> gor[g].obj, state |-> "running", signalled |-> FALSE])
    /\ cmds' = [cmds EXCEPT ![gor[g].obj].Process = Len(rprocs) + 1]
    /\ gor' = [gor EXCEPT ![g].pc = "wait", ![g].pid = Len(rprocs) + 1]
    /\ UNCHANGED <<now, debounceDuration, rulesVars, walkVars, matchVars, liveReload, rpc, lastRestart, rEvents,
                   rpath, rri, cmd, cmdUsers, killErr, hubVars>>

\* A process exits, by itself or killed.
ProcExit(pid) ==
    /\ rprocs[pid].state = "running"
    /\ rprocs' = [rprocs EXCEPT ![pid].state = "exited"]
    /\ UNCHANGED <<now, debounceDuration, rulesVars, walkVars, matchVars, liveReload, rpc, lastRestart, rEvents,
                   rpath, rri, cmd, cmds, gor, cmdUsers, killErr, hubVars>>

\* Wait returns: cmd.Run() returns and the goroutine ends.
GoWait(g) ==
    /\ RestartRunning
    /\ gor[g].pc = "wait"
    /\ rprocs[gor[g].pid].state = "exited"
    /\ gor' = [gor EXCEPT ![g].pc = "done"]
    /\ UNCHANGED <<now, debounceDuration, rulesVars, walkVars, matchVars, liveReload, rpc, lastRestart, rEvents,
                   rpath, rri, cmd, cmds, rprocs, cmdUsers, killErr, hubVars>>

NextRestart ==
    \/ RTick
    \/ \E path \in RestartPaths : RestartEvent(path)
    \/ RestartError
    \/ RestartClosed
    \/ \E g \in DOMAIN gor : GoRun(g)
    \/ \E g \in DOMAIN gor : GoSpawn(g)
    \/ \E pid \in DOMAIN rprocs : ProcExit(pid)
    \/ \E g \in DOMAIN gor : GoWait(g)

SpecRestart == InitRestart /\ [][NextRestart]_vars

\* ----------------------------------------- part_000: the walk at startup
D_dot == <<".">>
D_git == <<".", "g", "i", "t">>
D_git_hooks == <<".", "g", "i", "t", "/", "h", "o", "o", "k", "s">>
D_my_github == <<"m", "y", ".", "g", "i", "t", "h", "u", "b">>
D_node_modules == <<"n", "o", "d", "e", "_", "m", "o", "d", "u", "l", "e", "s">>
D_node_modules_pkg == <<"n", "o", "d", "e", "_", "m", "o", "d", "u", "l", "e", "s", "/", "p", "k", "g">>
D_src == <<"s", "r", "c">>
F_src_main_go == <<"s", "r", "c", "/", "m", "a", "i", "n", ".", "g", "o">>
D_src_node_modules == <<"s", "r", "c", "/", "n", "o", "d", "e", "_", "m", "o", "d", "u", "l", "e", "s">>

\* A directory tree, in the order filepath.Walk(".") visits it: lexical
\* within each directory, a directory before its entries.
Tree ==
    << [path |-> D_dot, dir |-> TRUE],
       [path |-> D_git, dir |-> TRUE],
       [path |-> D_git_hooks, dir |-> TRUE],
       [path |-> D_my_github, dir |-> TRUE],
       [path |-> D_node_modules, dir |-> TRUE],
       [path |-> D_node_modules_pkg, dir |-> TRUE],
       [path |-> D_src, dir |-> TRUE],
       [path |-> F_src_main_go, dir |-> FALSE],
       [path |-> D_src_node_modules, dir |-> TRUE] >>

\* Values of the flag "ignore" (default "node_modules,.git") split at commas.
IgnoreSets ==
    { <<D_node_modules, D_git>>, <<D_node_modules>>, <<D_git>>, <<D_src>> }

\* Values of config.WatchDirs.
RootSets == { <<D_dot>>, <<D_src>>, <<D_dot, D_src>> }

IsPrefix(p, s) == Len(p) <= Len(s) /\ SubSeq(s, 1, Len(p)) = p

\* strings.Contains(s, substr)
Contains(s, substr) ==
    \E i \in 0..(Len(s) - Len(substr)) : SubSeq(s, i + 1, i + Len(substr)) = substr

\* Mutant of isIgnored: nothing is ignored.
isIgnoredNever(path, dirs) == FALSE

\* isIgnored: some ignore token is a substring of the path.
isIgnored(path, dirs) == \E i \in DOMAIN dirs : Contains(path, dirs[i])

\* The entries filepath.Walk(root) visits, in order.
WalkOf(root) ==
    SelectSeq(Tree, LAMBDA e : \/ root = D_dot
                               \/ e.path = root
                               \/ IsPrefix(root \o <<"/">>, e.path))

InitWalk ==
    /\ RulesIdle
    /\ RestartIdle
    /\ debounceDuration = 0
    /\ liveReload = FALSE
    /\ now = StartTime
    /\ cfgFile = NoFile
    /\ cfgErr = "none"
    /\ regErr = FALSE
    /\ ignoreDirs \in IgnoreSets
    /\ watchDirs \in RootSets
    /\ wpc = "walk"
    /\ wroot = 1
    /\ wpos = 1
    /\ registered = {}
    /\ MatchIdle

walkFrame == <<debounceDuration, now, rulesVars, liveReload, rpc, lastRestart, rEvents, rpath,
               rri, cmdVars, hubVars, cfgFile, cfgErr, ignoreDirs, watchDirs, matchVars>>

\* The walk calls the function of line 144 for the next entry; added tells
\* whether watcher.Add succeeds, should it be called.  An error makes the
\* function return it, Walk return it, and main end in logger.Fatalf.
WalkVisit(added) ==
    /\ wpc = "walk"
    /\ wpos <= Len(WalkOf(watchDirs[wroot]))
    /\ LET e == WalkOf(watchDirs[wroot])[wpos] IN
         IF e.dir /\ ~isIgnored(e.path, ignoreDirs)
         THEN IF added
              THEN /\ registered' = registered \cup {e.path}
                   /\ wpos' = wpos + 1
                   /\ UNCHANGED <<wpc, regErr>>
              ELSE /\ wpc' = "fatal"
                   /\ regErr' = TRUE
                   /\ UNCHANGED <<registered, wpos>>
         ELSE /\ added
              /\ wpos' = wpos + 1
              /\ UNCHANGED <<registered, wpc, regErr>>
    /\ UNCHANGED <<walkFrame, wroot>>

\* The walk hands the function an error (an entry that cannot be read).
WalkError ==
    /\ wpc = "walk"
    /\ wpos <= Len(WalkOf(watchDirs[wroot]))
    /\ wpc' = "fatal"
    /\ regErr' = TRUE
    /\ UNCHANGED <<walkFrame, wroot, wpos, registered>>

\* filepath.Walk returns nil: the next root, or "Watching for changes...".
WalkReturns ==
    /\ wpc = "walk"
    /\ wpos > Len(WalkOf(watchDirs[wroot]))
    /\ IF wroot < Len(watchDirs)
       THEN wroot' = wroot + 1 /\ wpos' = 1 /\ UNCHANGED wpc
       ELSE wpc' = "watching" /\ UNCHANGED <<wroot, wpos>>
    /\ UNCHANGED <<walkFrame, registered, regErr>>

NextWalk ==
    \/ \E added \in BOOLEAN : WalkVisit(added)
    \/ WalkError
    \/ WalkReturns

SpecWalk == InitWalk /\ [][NextWalk]_vars

\* ================================== part_001: extension rules and live reload
ExtRule(extensions, command) == [Extensions |-> extensions, Command |-> command]

\* The rules of the configuration: a rule for Go files (part_001:288), then
\* a rule that names every file (part_001:459).
ExtRules ==
    << ExtRule(<< <<"g", "o">> >>, "go run main.go"),
       ExtRule(<< <<"*">> >>, "echo No command specified") >>

S_index_js == <<"i", "n", "d", "e", "x", ".", "j", "s">>

\* The paths the watch source reports to this variant.
ReloadPaths == {S_main_go, S_index_html, S_README_md}

\* Mutant of isWatchedByRules: the wildcard extension is not looked at.
isWatchedNoWildcard(path, rules) ==
    \E r \in DOMAIN rules : \E i \in DOMAIN rules[r].Extensions :
        <<".">> \o rules[r].Extensions[i] = Ext(path)

\* isWatchedFile of part_001: some extension of some rule is "*" or the
\* path's extension.
isWatchedByRules(path, rules) ==
    \E r \in DOMAIN rules : \E i \in DOMAIN rules[r].Extensions :
        \/ rules[r].Extensions[i] = <<"*">>
        \/ <<".">> \o rules[r].Extensions[i] = Ext(path)

\* The first rule at or after r that matches path, 0 when there is none.
RECURSIVE MatchingRuleFrom(_, _)
MatchingRuleFrom(path, r) ==
    IF r > Len(ExtRules) THEN 0
    ELSE IF isWatchedByRules(path, <<ExtRules[r]>>) THEN r
    ELSE MatchingRuleFrom(path, r + 1)

\* isWatchedFile(event.Name, config.Rules) && time.Since(lastRestart) > debounceDuration
ReloadAdmits(path) ==
    isWatchedByRules(path, ExtRules) /\ now - lastRestart > debounceDuration

InitReload ==
    /\ RulesIdle
    /\ debounceDuration \in 0..MaxDebounce
    /\ liveReload \in BOOLEAN
    /\ now = StartTime
    /\ WalkIdle
    /\ MatchIdle
    /\ rpc = "startup"
    /\ lastRestart = 0
    /\ rEvents = 0
    /\ rpath = NoPath
    /\ rri = 1
    /\ cmd = 0 /\ cmds = <<>> /\ gor = <<>> /\ rprocs = <<>> /\ cmdUsers = {}
    /\ killErr = "none"
    /\ clients = {}
    /\ mutex = {}
    /\ hpc = [c \in Conns |-> "idle"]
    /\ alive = [c \in Conns |-> FALSE]
    /\ todo = {}
    /\ snapshot = {}
    /\ attempted = {}
    /\ writes = 0
    /\ dropped = {}

reloadFrame == <<debounceDuration, rulesVars, walkVars, matchVars, liveReload, cmdVars>>

\* Mutant of AfterCommands: notifyLiveReload is never called.
AfterCommandsSelects(path) == "select"

\* Where the loop goes once the commands of the event have run.
AfterCommands(path) ==
    IF liveReload /\ isFrontendFile(path) THEN "notify_lock" ELSE "select"

\* "Run commands on start": runCommand for every rule, in order; each call
\* returns when the command has exited.
StartupRun ==
    /\ rpc = "startup"
    /\ IF rri < Len(ExtRules)
       THEN rri' = rri + 1 /\ rpc' = "startup"
       ELSE rri' = 0 /\ rpc' = "select"
    /\ UNCHANGED <<now, reloadFrame, lastRestart, rEvents, rpath, hubVars>>

\* case event, ok := <-watcher.Events with ok, up to the first runCommand.
ReloadEvent(path) ==
    /\ rpc = "select"
    /\ rEvents < MaxEvents
    /\ rEvents' = rEvents + 1
    /\ IF ReloadAdmits(path)
       THEN /\ lastRestart' = now
            /\ rpath' = path
            /\ rri' = MatchingRuleFrom(path, 1)
            /\ rpc' = "run"
       ELSE UNCHANGED <<lastRestart, rpath, rri, rpc>>
    /\ UNCHANGED <<now, reloadFrame, hubVars>>

\* runCommand returns, failed or not: the rule loop goes on with the next
\* matching rule, then with the live-reload check.
RunExit ==
    /\ rpc = "run"
    /\ rri' = MatchingRuleFrom(rpath, rri + 1)
    /\ rpc' = IF rri' # 0 THEN "run" ELSE AfterCommands(rpath)
    /\ UNCHANGED <<now, reloadFrame, lastRestart, rEvents, rpath, hubVars>>

ReloadError ==
    /\ rpc = "select"
    /\ UNCHANGED vars

\* Either channel closed: main returns and the process exits, and with it
\* its connections and its memory.
ReloadClosed ==
    /\ rpc = "select"
    /\ rpc' = "exited"
    /\ lastRestart' = 0 /\ rEvents' = 0 /\ rpath' = NoPath
    /\ clients' = {} /\ mutex' = {}
    /\ hpc' = [c \in Conns |-> "closed"]
    /\ alive' = [c \in Conns |-> FALSE]
    /\ todo' = {} /\ snapshot' = {} /\ attempted' = {} /\ writes' = 0 /\ dropped' = {}
    /\ UNCHANGED <<now, reloadFrame, rri>>

\* ------------------------------------------------------------ the live-reload hub
\* Mutant of MutexFree: Lock never waits.
MutexNeverHeld == TRUE

\* clientsMutex.Lock() returns only when no task holds the mutex.
MutexFree == mutex = {}

\* Mutant of ClientsAfterWrite: the failed client stays in the map.
ClientsKept(c, ok) == clients

\* The clients map after WriteMessage to c: delete(clients, client) on failure.
ClientsAfterWrite(c, ok) == IF ok THEN clients ELSE clients \ {c}

hubFrame == <<now, reloadFrame, lastRestart, rEvents, rpath, rri>>

\* Connections are numbered in the order their requests arrive.
NextConn(c) == hpc[c] = "idle" /\ \A d \in Conns : d < c => hpc[d] # "idle"

\* upgrader.Upgrade succeeds: a new connection, its handler about to register.
Connect(c) ==
    /\ RestartRunning /\ liveReload
    /\ NextConn(c)
    /\ hpc' = [hpc EXCEPT ![c] = "reg_lock"]
    /\ alive' = [alive EXCEPT ![c] = TRUE]
    /\ UNCHANGED <<hubFrame, rpc, clients, mutex, todo, snapshot, attempted, writes, dropped>>

\* upgrader.Upgrade fails: logged, the handler returns.
UpgradeFails(c) ==
    /\ RestartRunning /\ liveReload
    /\ NextConn(c)
    /\ hpc' = [hpc EXCEPT ![c] = "closed"]
    /\ UNCHANGED <<hubFrame, rpc, clients, mutex, alive, todo, snapshot, attempted, writes, dropped>>

\* The peer goes away or the connection breaks.
Disconnect(c) ==
    /\ RestartRunning
    /\ alive[c]
    /\ alive' = [alive EXCEPT ![c] = FALSE]
    /\ UNCHANGED <<hubFrame, rpc, clients, mutex, hpc, todo, snapshot, attempted, writes, dropped>>

\* clientsMutex.Lock() of line 228.
RegLock(c) ==
    /\ RestartRunning
    /\ hpc[c] = "reg_lock"
    /\ MutexFree
    /\ mutex' = mutex \cup {c}
    /\ hpc' = [hpc EXCEPT ![c] = "reg_cs"]
    /\ UNCHANGED <<hubFrame, rpc, clients, alive, todo, snapshot, attempted, writes, dropped>>

\* clients[conn] = true; clientsMutex.Unlock()
Register(c) ==
    /\ RestartRunning
    /\ hpc[c] = "reg_cs"
    /\ clients' = clients \cup {c}
    /\ mutex' = mutex \ {c}
    /\ hpc' = [hpc EXCEPT ![c] = "read"]
    /\ UNCHANGED <<hubFrame, rpc, alive, todo, snapshot, attempted, writes, dropped>>

\* conn.ReadMessage() returns a message: ignored, the loop reads on.
ReadMessage(c) ==
    /\ RestartRunning
    /\ hpc[c] = "read"
    /\ alive[c]
    /\ UNCHANGED vars

\* conn.ReadMessage() returns an error.
ReadError(c) ==
    /\ RestartRunning
    /\ hpc[c] = "read"
    /\ ~alive[c]
    /\ hpc' = [hpc EXCEPT ![c] = "unreg_lock"]
    /\ UNCHANGED <<hubFrame, rpc, clients, mutex, alive, todo, snapshot, attempted, writes, dropped>>

\* clientsMutex.Lock() of line 235.
UnregLock(c) ==
    /\ RestartRunning
    /\ hpc[c] = "unreg_lock"
    /\ MutexFree
    /\ mutex' = mutex \cup {c}
    /\ hpc' = [hpc EXCEPT ![c] = "unreg_cs"]
    /\ UNCHANGED <<hubFrame, rpc, clients, alive, todo, snapshot, attempted, writes, dropped>>

\* Mutant of ClientsAfterDelete: the handler leaves its connection in the map.
ClientsNotDeleted(c) == clients

\* The clients map after delete(clients, conn): without conn, and as it was
\* when conn is not a key.
ClientsAfterDelete(c) == clients \ {c}

\* delete(clients, conn); clientsMutex.Unlock(); break; the deferred conn.Close()
Unregister(c) ==
    /\ RestartRunning
    /\ hpc[c] = "unreg_cs"
    /\ clients' = ClientsAfterDelete(c)
    /\ mutex' = mutex \ {c}
    /\ hpc' = [hpc EXCEPT ![c] = "closed"]
    /\ alive' = [alive EXCEPT ![c] = FALSE]
    /\ UNCHANGED <<hubFrame, rpc, todo, snapshot, attempted, writes, dropped>>

\* notifyLiveReload: clientsMutex.Lock(), and the range over clients begins.
NotifyLock ==
    /\ rpc = "notify_lock"
    /\ MutexFree
    /\ mutex' = mutex \cup {Loop}
    /\ rpc' = "notify_iter"
    /\ todo' = clients
    /\ snapshot' = clients
    /\ attempted' = {}
    /\ writes' = 0
    /\ UNCHANGED <<hubFrame, clients, hpc, alive, dropped>>

\* One iteration of the range: client.WriteMessage; on an error client.Close()
\* and delete(clients, client).  A write to a connection that is gone may
\* still succeed; a write to a live one succeeds.  The range skips entries
\* deleted before it reaches them.
NotifyWrite(c, ok) ==
    /\ rpc = "notify_iter"
    /\ c \in todo \cap clients
    /\ (alive[c] => ok)
    /\ attempted' = attempted \cup {c}
    /\ writes' = writes + 1
    /\ todo' = todo \ {c}
    /\ clients' = ClientsAfterWrite(c, ok)
    /\ dropped' = IF ok THEN dropped ELSE dropped \cup {c}
    /\ UNCHANGED <<hubFrame, rpc, mutex, hpc, alive, snapshot>>

\* The range has ended: the deferred clientsMutex.Unlock().
NotifyUnlock ==
    /\ rpc = "notify_iter"
    /\ todo \cap clients = {}
    /\ mutex' = mutex \ {Loop}
    /\ rpc' = "select"
    /\ todo' = {} /\ snapshot' = {} /\ attempted' = {} /\ writes' = 0
    /\ UNCHANGED <<hubFrame, clients, hpc, alive, dropped>>

NextReload ==
    \/ RTick
    \/ StartupRun
    \/ \E path \in ReloadPaths : ReloadEvent(path)
    \/ RunExit
    \/ ReloadError
    \/ ReloadClosed
    \/ \E c \in Conns : Connect(c)
    \/ \E c \in Conns : UpgradeFails(c)
    \/ \E c \in Conns : Disconnect(c)
    \/ \E c \in Conns : RegLock(c)
    \/ \E c \in Conns : Register(c)
    \/ \E c \in Conns : ReadMessage(c)
    \/ \E c \in Conns : ReadError(c)
    \/ \E c \in Conns : UnregLock(c)
    \/ \E c \in Conns : Unregister(c)
    \/ NotifyLock
    \/ \E c \in Conns, ok \in BOOLEAN : NotifyWrite(c, ok)
    \/ NotifyUnlock

SpecReload == InitReload /\ [][NextReload]_vars

\* A step of a task of the hub that can go on without waiting for a peer: a
\* handler whose read has failed, a task at the lock when it is free, a task
\* that holds the lock.
HubStep ==
    \/ \E c \in Conns : ReadError(c) \/ UnregLock(c) \/ Unregister(c) \/ Register(c)
    \/ \E c \in Conns, ok \in BOOLEAN : NotifyWrite(c, ok)
    \/ NotifyUnlock

\* The Go scheduler does not leave every runnable goroutine waiting for ever.
FairHub == WF_vars(HubStep)

\* The variant with live reload enabled (flag "live-reload") and no debounce
\* (flag "debounce" at 0s).
InitReloadFair == InitReload /\ liveReload /\ debounceDuration = 0

SpecReloadFair == InitReloadFair /\ [][NextReload]_vars /\ FairHub

\* ============================================= the matching functions
S_script_js == <<"s", "c", "r", "i", "p", "t", ".", "j", "s">>
S_cargo == <<"c", "a", "r", "g", "o">>
S_archive_tar_go == <<"a", "r", "c", "h", "i", "v", "e", ".", "t", "a", "r", ".", "g", "o">>
G_go == <<"*", ".", "g", "o">>
G_rec == <<"*", "*">>

\* Path arguments: the paths of the tests, a path in a directory, a path
\* that ends in "go" without an extension, one with two dots, and the empty
\* path.
MatchPaths ==
    {NoPath, S_main_go, S_README_md, S_script_js, S_index_html, S_pkg_foo_go,
     S_cargo, S_archive_tar_go}

\* Pattern arguments.
MatchGlobs == {G_rec_go, G_go, G_any, G_rec, G_pkg_any}

\* Extension list arguments: those of the tests, the wildcard, none.
MatchExts ==
    { << <<"g", "o">>, <<"j", "s">> >>, << <<"g", "o">> >>, << <<"j", "s">> >>,
      << <<"*">> >>, <<>> }

InitMatch ==
    /\ RulesIdle
    /\ RestartIdle
    /\ WalkIdle
    /\ debounceDuration = 0
    /\ liveReload = FALSE
    /\ now = StartTime
    /\ mpc = "call"
    /\ mPath \in MatchPaths
    /\ mGlob \in MatchGlobs
    /\ mExts \in MatchExts
    /\ mOut = NoOut

\* The functions are called with the arguments: g.Match (main.go:205-206),
\* isWatchedFile of part_000 and of part_001, isFrontendFile.  They read
\* their arguments and write nothing but their result.
Evaluate ==
    /\ mpc = "call"
    /\ mpc' = "done"
    /\ mOut' = [glob |-> Match(mGlob, mPath),
                watched |-> isWatchedFile(mPath, mExts),
                byRules |-> isWatchedByRules(mPath, <<ExtRule(mExts, "go run main.go")>>),
                frontend |-> isFrontendFile(mPath)]
    /\ UNCHANGED <<debounceDuration, now, rulesVars, liveReload, rpc, lastRestart, rEvents,
                   rpath, rri, cmdVars, hubVars, walkVars, mPath, mGlob, mExts>>

NextMatch == Evaluate

SpecMatch == InitMatch /\ [][NextMatch]_vars

\* ================================================ startup: the configuration
P_json == <<"c", ".", "j", "s", "o", "n">>
P_yaml == <<"c", ".", "y", "a", "m", "l">>
P_yml  == <<"c", ".", "y", "m", "l">>
P_txt  == <<"c", ".", "t", "x", "t">>

\* A file on disk: its path, whether os.ReadFile can read it, the syntax of
\* its text ("json", "yaml" or "malformed"), the keys the text sets and
\* their values.
File(path, readable, syntax, keys, value) ==
    [given |-> TRUE, path |-> path, readable |-> readable, syntax |-> syntax,
     keys |-> keys, value |-> value]

\* strings.HasSuffix(s, suffix)
HasSuffix(s, suffix) ==
    Len(suffix) <= Len(s) /\ SubSeq(s, Len(s) - Len(suffix) + 1, Len(s)) = suffix

\* json.Unmarshal returns nil: the text is JSON.
JsonParses(file) == file.syntax = "json"

\* yaml.Unmarshal returns nil: the text is YAML.
YamlParses(file) == file.syntax = "yaml"

\* time.ParseDuration: the ticks of a duration text, -1 for an error (the
\* empty text among others).
ParseDuration(text) ==
    IF text = "0s" THEN 0 ELSE IF text = "500ms" THEN 1 ELSE -1

\* ------------------------------------------------- part_000: loadConfig, main
\* The zero Config of part_000.
ZeroConfig ==
    [watch_dirs |-> <<>>, ignore_dirs |-> <<>>, debounce_time |-> "", live_reload |-> FALSE]

\* Unmarshal into a zero Config: a key of the text sets its field, a field
\* without a key stays zero.
Unmarshal(file, zero) ==
    [k \in DOMAIN zero |-> IF k \in file.keys THEN file.value[k] ELSE zero[k]]

\* The configuration of TestLoadConfig.
V_test ==
    [watch_dirs |-> <<D_dot, D_src>>, ignore_dirs |-> <<D_node_modules, D_git>>,
     debounce_time |-> "500ms", live_reload |-> TRUE]

\* A configuration for the directory src alone.
V_src ==
    [watch_dirs |-> <<D_src>>, ignore_dirs |-> <<>>, debounce_time |-> "0s",
     live_reload |-> FALSE]

AllKeys == {"watch_dirs", "ignore_dirs", "debounce_time", "live_reload"}

\* The files the flag "config" names: one that cannot be read, one with an
\* extension that is neither JSON nor YAML, the text of TestInvalidConfig,
\* malformed YAML, YAML under a JSON name, the file of TestLoadConfig, a YAML
\* file without ignore_dirs and live_reload, a .yml file without debounce_time.
RestartFiles ==
    { File(P_json, FALSE, "json", AllKeys, V_test),
      File(P_txt, TRUE, "yaml", AllKeys, V_src),
      File(P_json, TRUE, "malformed", {}, ZeroConfig),
      File(P_yaml, TRUE, "malformed", {}, ZeroConfig),
      File(P_json, TRUE, "yaml", AllKeys, V_src),
      File(P_json, TRUE, "json", AllKeys, V_test),
      File(P_yaml, TRUE, "yaml", {"watch_dirs", "debounce_time"}, V_src),
      File(P_yml, TRUE, "yaml", {"watch_dirs"}, V_src) }

\* Mutant of loadConfigRestart: a text that does not parse gives the zero
\* Config and no error.
loadConfigLenient(file) ==
    IF ~file.readable THEN [err |-> "read", config |-> ZeroConfig]
    ELSE IF \/ HasSuffix(file.path, <<".", "j", "s", "o", "n">>)
            \/ HasSuffix(file.path, <<".", "y", "a", "m", "l">>)
            \/ HasSuffix(file.path, <<".", "y", "m", "l">>)
         THEN [err |-> "nil", config |-> Unmarshal(file, ZeroConfig)]
    ELSE [err |-> "format", config |-> ZeroConfig]

\* loadConfig of part_000: the returned error and Config.
loadConfigRestart(file) ==
    IF ~file.readable THEN [err |-> "read", config |-> ZeroConfig]
    ELSE IF HasSuffix(file.path, <<".", "j", "s", "o", "n">>)
         THEN IF JsonParses(file) THEN [err |-> "nil", config |-> Unmarshal(file, ZeroConfig)]
              ELSE [err |-> "parse", config |-> ZeroConfig]
    ELSE IF \/ HasSuffix(file.path, <<".", "y", "a", "m", "l">>)
            \/ HasSuffix(file.path, <<".", "y", "m", "l">>)
         THEN IF YamlParses(file) THEN [err |-> "nil", config |-> Unmarshal(file, ZeroConfig)]
              ELSE [err |-> "parse", config |-> ZeroConfig]
    ELSE [err |-> "format", config |-> ZeroConfig]

\* part_000 before main runs, the flags at their defaults: watch ".", ignore
\* node_modules and .git, debounce 500ms, no live reload.
InitBoot ==
    /\ RulesIdle
    /\ RestartIdle
    /\ MatchIdle
    /\ now = StartTime
    /\ cfgFile \in RestartFiles \cup {NoFile}
    /\ cfgErr = "none"
    /\ regErr = FALSE
    /\ watchDirs = <<D_dot>>
    /\ ignoreDirs = <<D_node_modules, D_git>>
    /\ debounceDuration = ParseDuration("500ms")
    /\ liveReload = FALSE
    /\ wpc = "config"
    /\ wroot = 1
    /\ wpos = 1
    /\ registered = {}

bootFrame == <<now, rulesVars, rpc, lastRestart, rEvents, rpath, rri, cmdVars, hubVars,
               matchVars, cfgFile, regErr, wroot, wpos, registered>>

\* main of part_000, lines 106-129: a given file replaces the whole Config;
\* an error of loadConfig or of time.ParseDuration ends in logger.Fatalf.
BootConfig ==
    /\ wpc = "config"
    /\ IF ~cfgFile.given
       THEN /\ wpc' = "walk"
            /\ UNCHANGED <<cfgErr, watchDirs, ignoreDirs, liveReload, debounceDuration>>
       ELSE LET r == loadConfigRestart(cfgFile) IN
            /\ cfgErr' = r.err
            /\ IF r.err # "nil" \/ ParseDuration(r.config.debounce_time) < 0
               THEN /\ wpc' = "fatal"
                    /\ UNCHANGED <<watchDirs, ignoreDirs, liveReload, debounceDuration>>
               ELSE /\ watchDirs' = r.config.watch_dirs
                    /\ ignoreDirs' = r.config.ignore_dirs
                    /\ liveReload' = r.config.live_reload
                    /\ debounceDuration' = ParseDuration(r.config.debounce_time)
                    /\ wpc' = IF r.config.watch_dirs = <<>> THEN "watching" ELSE "walk"
    /\ UNCHANGED bootFrame

\* part_000 from the start of main: the configuration, the walk, the event
\* loop with its goroutines and, with live reload, the broadcast; no client
\* connects.
NextBoot ==
    \/ BootConfig
    \/ \E added \in BOOLEAN : WalkVisit(added)
    \/ WalkError
    \/ WalkReturns
    \/ RTick
    \/ \E path \in RestartPaths : RestartEvent(path)
    \/ RestartError
    \/ RestartClosed
    \/ \E g \in DOMAIN gor : GoRun(g)
    \/ \E g \in DOMAIN gor : GoSpawn(g)
    \/ \E pid \in DOMAIN rprocs : ProcExit(pid)
    \/ \E g \in DOMAIN gor : GoWait(g)
    \/ NotifyLock
    \/ NotifyUnlock

SpecBoot == InitBoot /\ [][NextBoot]_vars

\* ------------------------------------------------- main.go: startup
D_pkg == <<"p", "k", "g">>

\* The paths that exist in the working directory when the program starts.
FsPaths == {S_main_go, S_README_md, D_pkg, S_pkg_foo_go}

\* filepath.Match: "*" matches any sequence of characters other than "/".
RECURSIVE FsMatch(_, _)
FsMatch(pattern, s) ==
    IF pattern = <<>> THEN s = <<>>
    ELSE IF Head(pattern) = "*"
         THEN \/ FsMatch(Tail(pattern), s)
              \/ (s # <<>> /\ Head(s) # "/" /\ FsMatch(pattern, Tail(s)))
         ELSE /\ s # <<>>
              /\ Head(pattern) = Head(s)
              /\ FsMatch(Tail(pattern), Tail(s))

\* filepath.Glob(pattern): the existing paths the pattern matches.
Glob(pattern) == {f \in FsPaths : FsMatch(pattern, f)}

\* isIgnoredDir: some ignore token is a substring of the path.
isIgnoredDir(path, dirs) == \E i \in DOMAIN dirs : Contains(path, dirs[i])

\* The zero Config of main.go.
ZeroRules == [ignore_dirs |-> <<>>, debounce_time |-> "", rules |-> <<>>]

\* The example configuration: rules and debounce_time, no ignore_dirs.
V_example == [ignore_dirs |-> <<>>, debounce_time |-> "500ms", rules |-> ExampleRules]

\* A configuration that ignores pkg.
V_overlap == [ignore_dirs |-> <<D_pkg>>, debounce_time |-> "0s", rules |-> OverlapRules]

RuleKeys == {"ignore_dirs", "debounce_time", "rules"}

\* The files the flag "config" names: one that cannot be read, one with an
\* extension that is neither JSON nor YAML, malformed JSON, malformed YAML,
\* YAML under a JSON name, the example configuration, a JSON configuration.
RuleFiles ==
    { File(P_yaml, FALSE, "yaml", RuleKeys, V_example),
      File(P_txt, TRUE, "yaml", RuleKeys, V_example),
      File(P_json, TRUE, "malformed", {}, ZeroRules),
      File(P_yml, TRUE, "malformed", {}, ZeroRules),
      File(P_json, TRUE, "yaml", RuleKeys, V_example),
      File(P_yaml, TRUE, "yaml", {"debounce_time", "rules"}, V_example),
      File(P_json, TRUE, "json", RuleKeys, V_overlap) }

\* loadConfig of main.go: the returned error and Config.  Without a path,
\* and with no default file in the working directory, the zero Config.
loadConfig(file) ==
    IF ~file.given THEN [err |-> "nil", config |-> ZeroRules]
    ELSE IF ~file.readable THEN [err |-> "read", config |-> ZeroRules]
    ELSE IF Ext(file.path) \in {<<".", "y", "a", "m", "l">>, <<".", "y", "m", "l">>}
         THEN IF YamlParses(file) THEN [err |-> "nil", config |-> Unmarshal(file, ZeroRules)]
              ELSE [err |-> "parse", config |-> ZeroRules]
    ELSE IF Ext(file.path) = <<".", "j", "s", "o", "n">>
         THEN IF JsonParses(file) THEN [err |-> "nil", config |-> Unmarshal(file, ZeroRules)]
              ELSE [err |-> "parse", config |-> ZeroRules]
    ELSE [err |-> "format", config |-> ZeroRules]

\* main.go before main runs: init has created the watcher.
InitAdd ==
    /\ RestartIdle
    /\ MatchIdle
    /\ liveReload = FALSE
    /\ now = StartTime
    /\ cfgFile \in RuleFiles \cup {NoFile}
    /\ cfgErr = "none"
    /\ regErr = FALSE
    /\ watchDirs = <<>>
    /\ ignoreDirs = <<>>
    /\ wpc = "config"
    /\ wroot = 0
    /\ wpos = 0
    /\ registered = {}
    /\ config = [Rules |-> <<>>]
    /\ debounceDuration = 0
    /\ lastChange = 0
    /\ loopPc = "select"
    /\ sending = NoPath
    /\ nEvents = 0
    /\ lastEvent = NoEvent
    /\ signal = "none"
    /\ dpc = "recv"
    /\ dpath = NoPath
    /\ ri = 0 /\ pi = 0 /\ ci = 0
    /\ procs = {}
    /\ nDispatch = 0
    /\ dEvent = 0
    /\ failedEarlier = FALSE
    /\ dlog = <<>>

addFrame == <<now, lastChange, loopPc, sending, nEvents, lastEvent, signal, dispVars, procs,
              liveReload, rpc, lastRestart, rEvents, rpath, rri, cmdVars, hubVars, matchVars,
              cfgFile, watchDirs>>

\* The position of addPatternsToWatcher's loops at rule r, pattern p.
AddFrom(pos) ==
    IF pos = Done
    THEN wpc' = "watching" /\ wroot' = 0 /\ wpos' = 0
    ELSE wpc' = "add" /\ wroot' = pos.r /\ wpos' = pos.p

\* main of main.go, lines 60-81: loadConfig; without the flag "config" the
\* flags "ignore-dirs" (empty), "debounce-time" (500ms) and "rules" (empty)
\* at their defaults; time.ParseDuration; an error ends in logger.Fatalf.
MainConfig ==
    /\ wpc = "config"
    /\ LET r == loadConfig(cfgFile)
           text == IF cfgFile.given THEN r.config.debounce_time ELSE "500ms"
       IN  /\ cfgErr' = r.err
           /\ IF r.err # "nil" \/ ParseDuration(text) < 0
              THEN /\ wpc' = "fatal"
                   /\ UNCHANGED <<config, ignoreDirs, debounceDuration, wroot, wpos>>
              ELSE /\ config' = [Rules |-> r.config.rules]
                   /\ ignoreDirs' = r.config.ignore_dirs
                   /\ debounceDuration' = ParseDuration(text)
                   /\ AddFrom(PatternFrom(r.config.rules, 1, 1))
    /\ UNCHANGED <<addFrame, regErr, registered>>

\* The paths watcher.Add fails for, by the choice of the operating system.
BadSets == {{}, {S_pkg_foo_go}}

\* addPatternsToWatcher for one pattern: filepath.Glob, and watcher.Add for
\* every match that isIgnoredDir does not exclude; bad holds the paths for
\* which watcher.Add returns an error, which is logged, and the loops go on.
AddPattern(bad) ==
    /\ wpc = "add"
    /\ LET todoAdd == {m \in Glob(config.Rules[wroot].Patterns[wpos]) :
                          ~isIgnoredDir(m, ignoreDirs)}
           next == NextPattern(config.Rules, wroot, wpos)
       IN  /\ registered' = registered \cup (todoAdd \ bad)
           /\ regErr' = (regErr \/ todoAdd \cap bad # {})
           /\ AddFrom(next)
    /\ UNCHANGED <<addFrame, config, debounceDuration, cfgErr, ignoreDirs>>

\* main.go from the start of main: the configuration, the registration, the
\* event loop and the dispatcher.
NextAdd ==
    \/ MainConfig
    \/ \E bad \in BadSets : AddPattern(bad)
    \/ Tick
    \/ \E path \in Paths : WatchEvent(path)
    \/ WatchError
    \/ WatchClosed
    \/ Handoff
    \/ MatchPattern
    \/ StartCommand
    \/ \E ok \in BOOLEAN : SerialExit(ok)
    \/ \E p \in procs, ok \in BOOLEAN : ParallelExit(p, ok)

SpecAdd == InitAdd /\ [][NextAdd]_vars

\* ------------------------------------------------------- claims: dispatch
Starts == {i \in DOMAIN dlog : dlog[i].kind = "start"}

\* Whether some pattern of rule r matches path.
RuleMatches(r, path) ==
    \E p \in DOMAIN config.Rules[r].Patterns : Match(config.Rules[r].Patterns[p], path)

\* C1 (as stated): within one call of executeRules, the command sequence of
\* each rule is started at most once, even when several of its patterns match.
C1_SequenceStartedAtMostOnce ==
    \A r \in DOMAIN config.Rules :
        Cardinality({i \in Starts : dlog[i].rule = r /\ dlog[i].idx = 1}) <= 1

\* C2 (as stated): within one call of executeRules, once a serial command at
\* index i of a rule has failed, no command of that rule with index > i is
\* started.
C2_NothingStartedAfterSerialFailure ==
    \A i, j \in DOMAIN dlog :
        (/\ i < j
         /\ dlog[i].kind = "fail"
         /\ dlog[j].kind = "start"
         /\ dlog[j].rule = dlog[i].rule)
        => dlog[j].idx <= dlog[i].idx

\* ------------------------------------------------------- claims: debounce
\* The last two events received, the first of them admitted.
AfterAdmitted == lastEvent.seen /\ lastEvent.prevSeen /\ lastEvent.prevAdmitted

Delta == lastEvent.t - lastEvent.prevT

\* C3 (as stated): of two consecutive events at t and t + delta, the first
\* admitted, the second is admitted exactly when delta >= debounce_time.
C3_AdmittedFromBoundary ==
    AfterAdmitted => (lastEvent.admitted <=> Delta >= debounceDuration)

\* C3 (amended): of two consecutive events at t and t + delta, the first
\* admitted, the second is admitted exactly when delta > debounce_time; at
\* delta = debounce_time it is dropped.
C3_AdmittedPastBoundary ==
    AfterAdmitted => (lastEvent.admitted <=> Delta > debounceDuration)

\* C3 witness: the second event arrives exactly debounce_time after an
\* admitted one and is dropped.
C3_Witness ==
    AfterAdmitted /\ debounceDuration > 0 /\ Delta = debounceDuration /\ ~lastEvent.admitted

\* C4: an event received inside the debounce window of the last admitted
\* event is dropped whatever its path: the step that receives it changes
\* neither lastChange nor the queue, the dispatcher or the running commands;
\* only an admitted event is ever waiting on the queue or handed to the
\* dispatcher, and two admissions are more than debounce_time apart.
C4_DroppedEventsLeaveNoTrace ==
    [][/\ (nEvents' = nEvents + 1 /\ ~Admits)
            => /\ ~lastEvent'.admitted
               /\ UNCHANGED <<lastChange, loopPc, sending, dispVars, procs>>
       /\ (lastChange' # lastChange) => (lastChange' - lastChange > debounceDuration)
       /\ (loopPc' = "send")
            => /\ lastEvent'.admitted
               /\ sending' = lastEvent'.path
               /\ lastChange' = lastEvent'.t
       /\ (nDispatch' # nDispatch)
            => /\ nDispatch' = nDispatch + 1
               /\ loopPc = "send"
               /\ dpath' = sending
               /\ lastEvent.admitted /\ lastEvent.path = sending]_vars

\* C4 witness: an event for a path that matches a rule was dropped while the
\* dispatcher was idle, and nothing is queued.
C4_Witness ==
    /\ lastEvent.seen /\ ~lastEvent.admitted
    /\ lastEvent.prevAdmitted
    /\ RuleMatches(1, lastEvent.path)
    /\ dpc = "recv" /\ loopPc = "select" /\ nDispatch = 1

\* ------------------------------------------------------- claims: commands
CurrentCommand == config.Rules[ri].Commands[ci]

\* C5: a parallel command never blocks the dispatcher.  The dispatcher waits
\* for serial commands only; the step that starts a parallel command leaves
\* it running and the dispatcher past it; the exit of a parallel command,
\* failed or not, changes nothing of the dispatcher; and the exit of a
\* serial command, failed or not, leaves every running parallel command
\* running.
C5_ParallelNeverBlocks ==
    [][/\ (dpc' = "wait") => ~config.Rules[ri'].Commands[ci'].Parallel
       /\ (dpc = "command" /\ CurrentCommand.Parallel /\ dlog' # dlog)
            => /\ dpc' # "wait"
               /\ [ev |-> nDispatch, rule |-> ri, pat |-> pi, idx |-> ci] \in procs'
               /\ procs \subseteq procs'
       /\ (procs' # procs /\ procs' \subseteq procs) => UNCHANGED dispVars
       /\ (dpc = "wait" /\ dlog' # dlog) => procs' = procs]_vars

\* C5 witness: a parallel command of this dispatch is still running after a
\* later serial command of the same pass over the rule's commands has failed.
C5_Witness ==
    \E p \in procs : \E i \in DOMAIN dlog :
        /\ p.ev = nDispatch
        /\ dlog[i].kind = "fail"
        /\ dlog[i].rule = p.rule /\ dlog[i].pat = p.pat /\ dlog[i].idx > p.idx

\* C6: within one pass over a rule's commands, commands are started in
\* declared order, each start after the first directly following the start
\* of its predecessor or, when the predecessor is serial, the predecessor's
\* successful exit; and nothing is started while a serial command runs: the
\* entry after a serial command's start is that command's exit.
C6_SerialOrder ==
    \A j \in Starts :
        /\ dlog[j].idx > 1 =>
              /\ j > 1
              /\ dlog[j - 1].rule = dlog[j].rule
              /\ dlog[j - 1].pat = dlog[j].pat
              /\ dlog[j - 1].idx = dlog[j].idx - 1
              /\ dlog[j - 1].kind =
                    IF config.Rules[dlog[j].rule].Commands[dlog[j].idx - 1].Parallel
                    THEN "start" ELSE "ok"
        /\ ~config.Rules[dlog[j].rule].Commands[dlog[j].idx].Parallel =>
              IF j = Len(dlog)
              THEN dpc = "wait" /\ ri = dlog[j].rule /\ ci = dlog[j].idx
              ELSE /\ dlog[j + 1].kind \in {"ok", "fail"}
                   /\ dlog[j + 1].rule = dlog[j].rule
                   /\ dlog[j + 1].pat = dlog[j].pat
                   /\ dlog[j + 1].idx = dlog[j].idx

\* C6 witness: go build, then go test, both serial: the second has started.
C6_Witness ==
    /\ config.Rules = ExampleRules
    /\ \E j \in Starts : dlog[j].idx = 2

\* C7: a failed command ends its own rule's pass only.  When executeRules
\* returns, every rule with a pattern matching the path and at least one
\* command has had its first command started, whatever failed before it, in
\* this dispatch or an earlier one.
C7_FailureHaltsOnlyItsRule ==
    (dpc = "recv" /\ nDispatch > 0) =>
        \A r \in DOMAIN config.Rules :
            (RuleMatches(r, dpath) /\ Len(config.Rules[r].Commands) > 0)
                => \E i \in Starts : dlog[i].rule = r /\ dlog[i].idx = 1

\* C7 witness: the second dispatch, after a failure in the first, has
\* returned; in it a command of rule 1 failed and rule 2 ran all the same.
C7_Witness ==
    /\ dpc = "recv" /\ nDispatch = 2 /\ failedEarlier
    /\ \E i \in DOMAIN dlog : dlog[i].kind = "fail" /\ dlog[i].rule = 1
    /\ \E i \in Starts : dlog[i].rule = 2

\* ------------------------------------------------------- claims: live reload
\* C8: a broadcast writes to exactly the clients registered when it took the
\* lock; a client whose write failed is out of the set from then on and no
\* later broadcast writes to it.
C8_BroadcastReachesRegistered ==
    [][ /\ attempted' \subseteq snapshot'
        /\ (rpc = "notify_iter" /\ rpc' = "select") => attempted = snapshot
        /\ dropped' \cap clients' = {}
        /\ (attempted' \ attempted) \cap dropped = {} ]_vars

\* A second broadcast is writing while a client dropped by an earlier one is
\* not among its recipients.
C8_Witness ==
    /\ rpc = "notify_iter"
    /\ attempted # {}
    /\ dropped \ snapshot # {}

\* The tasks inside a section that reads or writes the clients map.
InSection ==
    (IF rpc = "notify_iter" THEN {Loop} ELSE {})
        \cup {c \in Conns : hpc[c] \in {"reg_cs", "unreg_cs"}}

\* C9: at most one task is inside a section on the clients map, it holds the
\* mutex, and while a broadcast iterates the map changes only by the
\* broadcast's own deletions.
C9_MutualExclusion ==
    [][ /\ Cardinality(InSection') <= 1
        /\ InSection' = mutex'
        /\ (rpc = "notify_iter" /\ rpc' = "notify_iter") =>
              /\ clients' \subseteq clients
              /\ clients \ clients' \subseteq attempted' ]_vars

\* The broadcast holds the lock while one handler waits to register and
\* another waits to unregister.
C9_Witness ==
    /\ rpc = "notify_iter"
    /\ mutex = {Loop}
    /\ \E c \in Conns : hpc[c] = "reg_lock"
    /\ \E c \in Conns : hpc[c] = "unreg_lock"

\* ------------------------------------------------------- claims: restart
\* The command processes that run and were never sent the kill signal.
Unsignalled == {p \in DOMAIN rprocs : rprocs[p].state = "running" /\ ~rprocs[p].signalled}

\* C10: at most one command process that was not sent a termination signal
\* runs at any time.
C10_AtMostOneUnsignalled == Cardinality(Unsignalled) <= 1

SerialRunning ==
    {i \in Starts : /\ ~config.Rules[dlog[i].rule].Commands[dlog[i].idx].Parallel
                    /\ ~\E j \in DOMAIN dlog : j > i /\ dlog[j].kind \in {"ok", "fail"}}

\* C12: a dispatch begins for the admitted event the loop is blocked on, a
\* later delivery than that of the dispatch before, and begins only when no
\* serial command of the dispatch before is still running.
C12_DispatchInDeliveryOrder ==
    [][ nDispatch' # nDispatch =>
          /\ nDispatch' = nDispatch + 1
          /\ lastEvent.admitted /\ lastEvent.path = sending
          /\ dpath' = sending
          /\ dEvent' = nEvents /\ dEvent' > dEvent
          /\ SerialRunning = {} ]_vars

\* The dispatch of a second admitted event waits on a serial command.
C12_Witness ==
    /\ nDispatch = 2
    /\ dEvent = 2
    /\ dpc = "wait"

\* C13: when a command of a rule is started, no start of a later rule is in
\* the dispatch log, every serial command started before it has exited, and
\* every earlier rule that matches the path and has commands was started.
C13_RulesInConfigurationOrder ==
    [][ (Len(dlog') = Len(dlog) + 1 /\ dlog'[Len(dlog')].kind = "start") =>
          LET rule == dlog'[Len(dlog')].rule IN
            /\ \A i \in Starts : dlog[i].rule <= rule
            /\ SerialRunning = {}
            /\ \A r \in 1..(rule - 1) :
                  (\A i \in Starts : dlog[i].rule # r) =>
                      ~(RuleMatches(r, dpath) /\ Len(config.Rules[r].Commands) > 0) ]_vars

\* Rule 2 has started after the serial commands of rule 1 exited, the last
\* of them with success.
C13_Witness ==
    /\ config.Rules = OverlapRules
    /\ \E k \in Starts :
          /\ k > 1
          /\ dlog[k].rule = 2
          /\ dlog[k - 1].kind = "ok" /\ dlog[k - 1].rule = 1

\* ------------------------------------------------------- claims: front end
S_styles_css == <<"s", "t", "y", "l", "e", "s", ".", "c", "s", "s">>
S_app_jsx == <<"a", "p", "p", ".", "j", "s", "x">>
S_js_main_go == <<"j", "s", "/", "m", "a", "i", "n", ".", "g", "o">>

FrontendExts == {<<".", "h", "t", "m", "l">>, <<".", "c", "s", "s">>, <<".", "j", "s">>}

\* C14: the event loop calls notifyLiveReload, and a broadcast writes to a
\* client, only with live reload enabled and for a path whose extension is
\* html, css or js; where the loop makes that check, isFrontendFile accepts
\* the paths with these extensions and no other.
C14_ReloadOnlyForFrontend ==
    [][ /\ (rpc # "notify_lock" /\ rpc' = "notify_lock") =>
              liveReload /\ Ext(rpath') \in FrontendExts
        /\ attempted' \ attempted # {} =>
              liveReload /\ Ext(rpath) \in FrontendExts
        /\ (rpc = "run" /\ rpc' # "run") =>
              /\ \A path \in {S_index_html, S_styles_css, S_script_js, S_index_js} :
                    isFrontendFile(path)
              /\ \A path \in {S_main_go, S_README_md, S_app_jsx, S_js_main_go, <<>>} :
                    ~isFrontendFile(path) ]_vars

\* A change to main.go has been handled with live reload enabled and a
\* client registered: the loop is back at select and nothing was written.
C14_Witness ==
    /\ liveReload
    /\ rpc = "select"
    /\ rpath = S_main_go
    /\ clients # {}
    /\ attempted = {}

\* C15: with live reload enabled, the handling of an admitted change to
\* index.html ends in one call of notifyLiveReload, and when that broadcast
\* unlocks every client registered when it locked was written to, with one
\* WriteMessage call each: two calls for two registered clients.
C15_OneReloadPerClient ==
    [][ /\ (rpc = "run" /\ rpc' # "run" /\ liveReload /\ rpath = S_index_html)
              => rpc' = "notify_lock"
        /\ (rpc = "notify_lock" /\ rpc' # "notify_lock")
              => rpc' = "notify_iter" /\ snapshot' = clients /\ writes' = 0
        /\ (rpc = "notify_iter" /\ rpc' # "notify_iter")
              => /\ rpc' = "select"
                 /\ attempted = snapshot
                 /\ writes = Cardinality(snapshot) ]_vars

\* The broadcast for index.html has written once to each of two registered
\* clients, both writes succeeding, and has nothing left to visit.
C15_Witness ==
    /\ liveReload
    /\ rpath = S_index_html
    /\ rpc = "notify_iter"
    /\ Cardinality(snapshot) = 2
    /\ attempted = snapshot
    /\ writes = 2
    /\ clients = snapshot
    /\ todo = {}

\* ------------------------------------------------------- claims: ignore list
\* Whether seg is one of the segments of path p.
HasSegment(p, seg) ==
    \E a \in 1..Len(p) : \E b \in a..Len(p) :
        /\ SubSeq(p, a, b) = seg
        /\ (a = 1 \/ p[a - 1] = "/")
        /\ (b = Len(p) \/ p[b + 1] = "/")

\* Whether tok occurs somewhere in path p.
Occurs(p, tok) == \E a \in 1..Len(p) : \E b \in a..Len(p) : SubSeq(p, a, b) = tok

Tokens == {ignoreDirs[i] : i \in DOMAIN ignoreDirs}

\* The directories the walks of the configured roots visit.
Walked ==
    {Tree[i].path : i \in {j \in DOMAIN Tree :
        /\ Tree[j].dir
        /\ \E r \in DOMAIN watchDirs : \E k \in DOMAIN WalkOf(watchDirs[r]) :
              WalkOf(watchDirs[r])[k] = Tree[j]}}

\* C16: no registered path contains an ignore token; none has a segment equal
\* to a token or lies beneath such a directory; and once the walk is over every
\* directory it visited that contains no token is registered.
C16_IgnoredNeverRegistered ==
    /\ \A p \in registered : \A tok \in Tokens :
          /\ ~Occurs(p, tok)
          /\ ~HasSegment(p, tok)
          /\ \A q \in registered : HasSegment(q, tok) => ~IsPrefix(q \o <<"/">>, p)
    /\ wpc = "watching" =>
          \A p \in Walked : (\A tok \in Tokens : ~Occurs(p, tok)) => p \in registered
    /\ isIgnored(D_node_modules, <<D_node_modules, D_git>>)
    /\ ~isIgnored(D_src, <<D_node_modules, D_git>>)

\* The walk of "." with the default ignore list is over: "." and src are
\* registered; .git, node_modules, what lies beneath them, src/node_modules
\* and my.github are not.
C16_Witness ==
    /\ wpc = "watching"
    /\ ignoreDirs = <<D_node_modules, D_git>>
    /\ watchDirs = <<D_dot>>
    /\ registered = {D_dot, D_src}

\* ------------------------------------------------------- claims: shared state
\* C17: the handle of the previously spawned command, main's cmd with the
\* Process field of its object, is read and written by one task only.
C17_HandleUsedByOneTask == Cardinality(cmdUsers) <= 1

\* ------------------------------------------------------- claims: matching
\* C18 as stated: the empty path matches no pattern, no extension list and
\* no rule set.
C18_EmptyPathNeverMatches ==
    (mpc = "done" /\ mPath = NoPath) =>
        ~mOut.glob /\ ~mOut.watched /\ ~mOut.byRules

\* C18, amended: the empty path matches no extension list of part_000, a
\* rule set of part_001 only through the wildcard extension "*", and a
\* pattern only if the pattern is made of "*" alone.
C18_EmptyPathMatchesWildcardsOnly ==
    (mpc = "done" /\ mPath = NoPath) =>
        /\ ~mOut.watched
        /\ mOut.byRules = (\E i \in DOMAIN mExts : mExts[i] = <<"*">>)
        /\ mOut.glob = (\A i \in DOMAIN mGlob : mGlob[i] = "*")

\* The empty path was matched against the wildcard extension and the
\* pattern "*", and both matched.
C18_Witness ==
    /\ mpc = "done"
    /\ mPath = NoPath
    /\ mExts = << <<"*">> >>
    /\ mGlob = G_any
    /\ mOut.byRules /\ mOut.glob

\* The final extension of path p: from the last dot of its last element on,
\* empty when that element has no dot.
FinalExt(p) ==
    LET dots == {i \in DOMAIN p : p[i] = "." /\ \A j \in i..Len(p) : p[j] # "/"}
    IN  IF dots = {} THEN <<>>
        ELSE SubSeq(p, CHOOSE i \in dots : \A j \in dots : j <= i, Len(p))

GoJs == << <<"g", "o">>, <<"j", "s">> >>

\* C19: isWatchedFile returns true exactly when the final extension of the
\* path is "." followed by one of the extensions; the call leaves its
\* arguments and the rest of the state as they were.
C19_WatchedIffFinalExtension ==
    [][ (mpc = "call" /\ mpc' = "done") =>
          /\ mOut'.watched = (\E i \in DOMAIN mExts : FinalExt(mPath) = <<".">> \o mExts[i])
          /\ (mPath = S_main_go /\ mExts = GoJs) => mOut'.watched
          /\ (mPath = S_README_md /\ mExts = GoJs) => ~mOut'.watched
          /\ (mPath = S_script_js /\ mExts = << <<"g", "o">> >>) => ~mOut'.watched
          /\ UNCHANGED <<mPath, mGlob, mExts, debounceDuration, now, rulesVars, liveReload,
                         rpc, lastRestart, rEvents, rpath, rri, cmdVars, hubVars, walkVars>>
      ]_vars

\* isWatchedFile("main.go", [go, js]) has returned true.
C19_Witness ==
    /\ mpc = "done"
    /\ mPath = S_main_go
    /\ mExts = GoJs
    /\ mOut.watched

\* C20: the pattern "**/*.go" matches main.go and does not match README.md.
C20_RecursivePatternMatchesRootFile ==
    (mpc = "done" /\ mGlob = G_rec_go) =>
        /\ mPath = S_main_go => mOut.glob
        /\ mPath = S_README_md => ~mOut.glob

\* ------------------------------------------------------- claims: kill failure
\* C21: in the restart-on-change variant a Kill that returns an error is not
\* fatal.  The step that handles an admitted event leaves the event loop
\* watching, creates the replacement command object, makes it main's cmd and
\* launches the goroutine that runs it, whatever Kill returned; a failed Kill
\* changes no process.
C21_KillFailureNotFatal ==
    [][ (rEvents' = rEvents + 1 /\ lastRestart' # lastRestart) =>
          /\ rpc' = "select"
          /\ Len(cmds') = Len(cmds) + 1
          /\ cmd' = Len(cmds')
          /\ cmds'[cmd'].Process = 0
          /\ Len(gor') = Len(gor) + 1
          /\ gor'[Len(gor')].pc = "load"
          /\ killErr' = "error" => rprocs' = rprocs ]_vars

\* The Kill for the second admitted event failed, the loop is watching, and
\* the command created for that event runs.
C21_Witness ==
    /\ killErr = "error"
    /\ rpc = "select"
    /\ cmd = 2
    /\ cmds[cmd].Process # 0
    /\ rprocs[cmds[cmd].Process].state = "running"

\* ------------------------------------------------------- claims: startup
\* The event loop has been entered or has handled something.
LoopStarted ==
    \/ wpc = "watching"
    \/ rEvents > 0 \/ nEvents > 0
    \/ Len(cmds) > 0 \/ nDispatch > 0

\* The paths that exist when the program starts.
StartupPaths == {Tree[i].path : i \in DOMAIN Tree} \cup FsPaths

\* C22: the registrations are made at startup, of paths that exist then, and
\* once the event loop has started no step changes them: not an event, a
\* dispatch, a command's start or exit, a goroutine or a broadcast; startup
\* is never resumed.
C22_RegistrationFixedAfterStartup ==
    [][ /\ registered' \subseteq StartupPaths
        /\ registered \subseteq registered'
        /\ LoopStarted => (registered' = registered /\ wpc' = "watching") ]_vars

\* Two events were handled, a command process was spawned and a broadcast is
\* under way; the registrations are those of the walk of "." and "src".
C22_Witness ==
    /\ wpc = "watching"
    /\ registered = {D_dot, D_src}
    /\ rEvents = 2
    /\ Len(rprocs) > 0
    /\ rpc = "notify_iter"

\* C23: once watcher.Add or the walk of a root has returned an error, the
\* program has terminated: the event loop was not entered and no event was
\* received, admitted or dispatched.
C23_RegistrationErrorIsFatal ==
    regErr =>
        /\ wpc = "fatal"
        /\ nEvents = 0 /\ rEvents = 0
        /\ nDispatch = 0
        /\ lastChange = 0 /\ lastRestart = 0

\* ------------------------------------------------------- claims: configuration
JsonYamlExts ==
    {<<".", "j", "s", "o", "n">>, <<".", "y", "a", "m", "l">>, <<".", "y", "m", "l">>}

\* The file cannot be read, has an extension other than .json, .yaml and
\* .yml, or holds text that is not of the syntax its extension names.
BadFile(file) ==
    \/ ~file.readable
    \/ Ext(file.path) \notin JsonYamlExts
    \/ file.syntax = "malformed"
    \/ (Ext(file.path) = <<".", "j", "s", "o", "n">>) # (file.syntax = "json")

\* C24: loadConfig returns an error exactly for a file that cannot be read,
\* has an unsupported extension or holds malformed text; on an error the
\* program aborts with nothing registered and no event received; the file of
\* TestLoadConfig gives no error, live_reload true and its watch_dirs.
C24_ConfigErrorsAbortStartup ==
    [][ /\ (wpc = "config" /\ wpc' # "config" /\ cfgFile.given) =>
              /\ BadFile(cfgFile) <=> cfgErr' \in {"read", "format", "parse"}
              /\ ~BadFile(cfgFile) <=> cfgErr' = "nil"
              /\ BadFile(cfgFile) => wpc' = "fatal"
              /\ (cfgFile.path = P_json /\ ~BadFile(cfgFile) /\ cfgFile.value = V_test) =>
                    /\ liveReload'
                    /\ watchDirs' = <<D_dot, D_src>>
                    /\ wpc' = "walk"
        /\ cfgErr' \in {"read", "format", "parse"} =>
              /\ wpc' = "fatal"
              /\ registered' = {}
              /\ nEvents' = 0 /\ rEvents' = 0
              /\ lastChange' = 0 /\ lastRestart' = 0 ]_vars

\* The text of TestInvalidConfig under a .json name: loadConfig returned a
\* parse error and the program has aborted.
C24_Witness ==
    /\ cfgFile.given
    /\ cfgFile.path = P_json
    /\ cfgFile.syntax = "malformed"
    /\ cfgErr = "parse"
    /\ wpc = "fatal"

\* ------------------------------------------------------- claims: client set
\* C25: a connection is in the clients map only after its handler has
\* registered it and before the handler has returned; it enters the map by
\* the handler's registration only, and never again once a broadcast has
\* removed it; the handler's delete of a connection a broadcast has removed
\* leaves the map as it is; and in time the map holds no broken connection:
\* a broken connection stays broken, so each one is removed.
C25_ClientRemovedOnce ==
    /\ [](\A c \in clients : hpc[c] \in {"read", "unreg_lock", "unreg_cs"})
    /\ [][\A c \in Conns :
            /\ (c \in clients' /\ c \notin clients) => (hpc[c] = "reg_cs" /\ hpc'[c] = "read")
            /\ c \in dropped => c \notin clients'
            /\ (hpc[c] = "unreg_cs" /\ hpc'[c] = "closed" /\ rpc' # "exited") =>
                  /\ c \notin clients'
                  /\ clients' = clients \ {c}
                  /\ c \notin clients => clients' = clients]_vars
    /\ <>[](\A c \in clients : alive[c])

\* A broadcast removed a connection after a failed write, and the
\* connection's handler has since run its own delete and returned, while
\* another connection stays registered.
C25_Witness ==
    /\ rpc # "exited"
    /\ \E c \in dropped : hpc[c] = "closed" /\ c \notin clients
    /\ clients # {}

\* ------------------------------------------------------- claims: blocking
\* C26: while a serial command runs the dispatcher does nothing but wait for
\* it: no command is started and no event is taken from the queue, and the
\* only entry the dispatch log gains is that command's exit; at most one
\* serial command runs at any time, and one runs exactly when the dispatcher
\* waits.
C26_SerialCommandBlocksDispatch ==
    [][ /\ dpc = "wait" =>
              /\ nDispatch' = nDispatch
              /\ dpath' = dpath
              /\ procs' \subseteq procs
              /\ dlog' # dlog =>
                    /\ Len(dlog') = Len(dlog) + 1
                    /\ dlog'[Len(dlog')].kind \in {"ok", "fail"}
                    /\ dlog'[Len(dlog')].rule = ri
                    /\ dlog'[Len(dlog')].idx = ci
        /\ (dlog' # dlog \/ dpc' # dpc) =>
              /\ Cardinality(SerialRunning') <= 1
              /\ SerialRunning' # {} <=> dpc' = "wait" ]_vars

\* A serial command of the first dispatch runs while the event loop is
\* blocked sending a second admitted event.
C26_Witness ==
    /\ dpc = "wait"
    /\ nDispatch = 1
    /\ loopPc = "send"
    /\ nEvents = 2

\* ------------------------------------------------------- claims: overlap
\* C27: a dispatch does not wait for the parallel commands of earlier
\* dispatches and does not end them.  With the event loop blocked on the
\* queue and executeRules returned, the hand-off can happen whatever runs;
\* it leaves every running instance running; a parallel command that starts
\* joins the instances that run, those of earlier dispatches included; and
\* an instance ends by its own exit only.
C27_ParallelDispatchesOverlap ==
    [][ /\ (loopPc = "send" /\ dpc = "recv") => ENABLED Handoff
        /\ nDispatch' # nDispatch => procs' = procs
        /\ procs' # procs =>
              \/ /\ procs \subseteq procs'
                 /\ \A q \in procs' \ procs :
                       /\ q.ev = nDispatch
                       /\ config.Rules[q.rule].Commands[q.idx].Parallel
              \/ /\ procs' \subseteq procs
                 /\ UNCHANGED <<dispVars, loopPc, sending>> ]_vars

\* Two instances of the same parallel command run, the first launched by the
\* dispatch of the first admitted event, the second by that of the second.
C27_Witness ==
    \E p, q \in procs :
        /\ p.ev = 1 /\ q.ev = 2
        /\ p.rule = q.rule /\ p.idx = q.idx
        /\ config.Rules[p.rule].Commands[p.idx].Parallel
        /\ nDispatch = 2 /\ dEvent = 2

\* ------------------------------------------------------- claims: hand-off
\* C28: an admitted event puts the event loop at the send on eventQueue with
\* that event's path; while it is there it receives no watch event and
\* leaves only by the hand-off, which begins one dispatch, of that path and
\* that event; a dispatch begins in no other way.  With the dispatcher
\* scheduled and every serial command exiting, the event the loop is blocked
\* on is in time the one dispatched.
C28_AdmittedDispatchedOnce ==
    /\ [][ /\ (nEvents' # nEvents /\ lastEvent'.admitted) =>
                 /\ loopPc = "select" /\ loopPc' = "send"
                 /\ sending' = lastEvent'.path
           /\ loopPc = "send" =>
                 /\ nEvents' = nEvents /\ lastChange' = lastChange
                 /\ \/ loopPc' = "send" /\ sending' = sending /\ nDispatch' = nDispatch
                    \/ /\ loopPc' = "select"
                       /\ nDispatch' = nDispatch + 1
                       /\ dpath' = sending
                       /\ dEvent' = nEvents
           /\ nDispatch' # nDispatch =>
                 /\ loopPc = "send" /\ loopPc' = "select"
                 /\ dEvent' > dEvent ]_vars
    /\ (loopPc = "send") ~> (loopPc = "select" /\ dEvent = nEvents)

\* The second admitted event was handed over after it had waited for a
\* serial command of the first dispatch, and both dispatches have returned.
C28_Witness ==
    /\ nEvents = 2
    /\ lastEvent.admitted /\ lastEvent.prevAdmitted
    /\ nDispatch = 2
    /\ dEvent = 2
    /\ dpc = "recv"
    /\ loopPc = "select"

\* ------------------------------------------------------- claims: admission
\* Whether some pattern of some rule matches path.
SomeRuleMatches(path) == \E r \in DOMAIN config.Rules : RuleMatches(r, path)

\* C29: an event is admitted exactly when more than debounce_time has passed
\* since the last admission, whatever its path; an admitted event sets
\* lastChange to the present and is sent to the dispatcher, a dropped one
\* changes neither, whether or not a rule matches its path; a command is
\* started only for a pattern that matches the dispatched path, so the
\* dispatch of a path no rule matches returns with nothing started.
C29_AdmissionIgnoresPath ==
    [][ /\ nEvents' = nEvents + 1 =>
              /\ lastEvent'.admitted <=> (now - lastChange > debounceDuration)
              /\ lastEvent'.admitted =>
                    /\ lastChange' = now
                    /\ loopPc' = "send" /\ sending' = lastEvent'.path
              /\ ~lastEvent'.admitted => UNCHANGED <<lastChange, loopPc, sending>>
        /\ (Len(dlog') = Len(dlog) + 1 /\ dlog'[Len(dlog')].kind = "start") =>
              Match(config.Rules[dlog'[Len(dlog')].rule].Patterns[dlog'[Len(dlog')].pat], dpath)
        /\ (dpc # "recv" /\ dpc' = "recv" /\ ~SomeRuleMatches(dpath)) => dlog' = <<>> ]_vars

\* main.go, which no pattern of the example rules matches, was admitted
\* and its dispatch returned with no command started; pkg/foo.go, which the
\* first rule matches, arrived within the window and was dropped.
C29_Witness ==
    /\ config.Rules = ExampleRules
    /\ debounceDuration > 0
    /\ nDispatch = 1 /\ dpath = S_main_go /\ ~SomeRuleMatches(S_main_go)
    /\ dpc = "recv" /\ dlog = <<>>
    /\ nEvents = 2
    /\ lastEvent.path = S_pkg_foo_go /\ RuleMatches(1, S_pkg_foo_go)
    /\ lastEvent.prevAdmitted /\ ~lastEvent.admitted
    /\ loopPc = "select"

\* ------------------------------------------------------- claims: command objects
\* C30: the goroutine launched for an admitted event runs the command object
\* created for that event, and no object has more than one process: the
\* g-th goroutine, once it has evaluated cmd.Run(), holds the g-th object,
\* and the processes spawned belong to distinct objects.
C30_EachObjectStartedOnce ==
    /\ \A g \in DOMAIN gor : gor[g].pc # "load" => gor[g].obj = g
    /\ \A p, q \in DOMAIN rprocs : rprocs[p].obj = rprocs[q].obj => p = q

================================================================================
